---- MODULE Spec2Model ----
(***************************************************************************)
(* Model of github_heatmap (src/src/main.rs): main() counts the commits of *)
(* one year per calendar day, lays the year out as Sunday-to-Saturday week *)
(* rows, and prints a month header and seven weekday rows of coloured      *)
(* cells.                                                                  *)
(*                                                                         *)
(* A NaiveDate is modelled by its day number (days since 1970-01-01); the  *)
(* chrono accessors year(), month(), weekday() and from_ymd_opt() are the  *)
(* proleptic Gregorian conversions below.  An Option<T> is <<>> for None   *)
(* and <<v>> for Some(v).  A HashMap is a function on the set of its keys. *)
(***************************************************************************)
EXTENDS Integers, Sequences, FiniteSets

\* ------------------------------------------------------------- bounds
\* Target years (args.year): from 2000 to MaxYear.  2000 .. 2024 holds each
\* of the 14 calendars once or more: a common and a leap year starting on
\* every weekday.
MaxYear == 2024
\* longest commit history fed to the revwalk
MaxCommits == 2
\* largest commit count get_commit_color is applied to on its own
MaxCount == 100

Years == 2000 .. MaxYear

\* ---------------------------------------------------------- constants
DAYS_IN_WEEK == 7
WEEKDAYS == <<"Sun", "Mon", "Tue", "Wed", "Thu", "Fri", "Sat">>
EMPTY_LABEL == "  "
MONTH_SEPARATOR == "|"
SecondsPerDay == 86400

\* --------------------------------------------------- chrono: calendar
\* NaiveDate::from_ymd_opt(y, m, d) for a valid date, as a day number.
DaysFromCivil(y, m, d) ==
    LET yy  == IF m <= 2 THEN y - 1 ELSE y
        era == yy \div 400
        yoe == yy - era * 400
        mp  == IF m > 2 THEN m - 3 ELSE m + 9
        doy == (153 * mp + 2) \div 5 + d - 1
        doe == yoe * 365 + yoe \div 4 - yoe \div 100 + doy
    IN  era * 146097 + doe - 719468

\* The (year, month, day) of a day number: Datelike::year/month/day.
CivilFromDays(z) ==
    LET zz  == z + 719468
        era == zz \div 146097
        doe == zz - era * 146097
        yoe == (doe - doe \div 1460 + doe \div 36524 - doe \div 146096) \div 365
        doy == doe - (365 * yoe + yoe \div 4 - yoe \div 100)
        mp  == (5 * doy + 2) \div 153
        d   == doy - (153 * mp + 2) \div 5 + 1
        m   == IF mp < 10 THEN mp + 3 ELSE mp - 9
        y   == yoe + era * 400
    IN  [year |-> IF m <= 2 THEN y + 1 ELSE y, month |-> m, day |-> d]

YearOf(date) == CivilFromDays(date).year
MonthOf(date) == CivilFromDays(date).month

\* Datelike::weekday() as num_days_from_sunday(): 0 = Sunday .. 6 = Saturday.
\* 1970-01-01 (day 0) was a Thursday.
Weekday(date) == (date + 4) % 7

Sun == 0
Sat == 6

\* ------------------------------------------------ chrono: timestamps
\* A commit time is an i64 of seconds since the epoch.  A value whose
\* far field is 0 is the second count secs; far = 1 (-1) is a value above
\* (below) the range chrono can turn into a date, for which
\* Utc.timestamp_opt(..).single() is None.
Stamp(n) == [far |-> 0, secs |-> n]
FarFuture == [far |-> 1, secs |-> 0]

\* Utc.timestamp_opt(t, 0).single() followed by date_naive(): the UTC day
\* the second falls in (floor division), or None.
TimestampDate(t) ==
    IF t.far # 0 THEN <<>> ELSE << t.secs \div SecondsPerDay >>

\* The commit times a history is drawn from, for target year y: the first
\* and the last second of Jan 1, the last second of Dec 31, the first
\* second of the next year, and a time chrono cannot represent.
Stamps(y) ==
    { Stamp(DaysFromCivil(y, 1, 1) * SecondsPerDay),
      Stamp(DaysFromCivil(y, 1, 1) * SecondsPerDay + (SecondsPerDay - 1)),
      Stamp(DaysFromCivil(y, 12, 31) * SecondsPerDay + (SecondsPerDay - 1)),
      Stamp(DaysFromCivil(y + 1, 1, 1) * SecondsPerDay),
      FarFuture }

Histories(y) ==
    UNION { [1 .. n -> Stamps(y)] : n \in 0 .. MaxCommits }

\* ---------------------------------------------------------------- state
VARIABLES
    pc,                   \* where main() is
    year,                 \* args.year
    repo,                 \* commit times in revwalk order
    revwalk,              \* number of commits the revwalk has yielded
    commit_counts,        \* HashMap<NaiveDate, u32>
    error,                \* the Err main() returns, <<>> while there is none
    start_date, end_date,
    adjusted_start_date, adjusted_end_date,
    date,                 \* organize_weeks: the next day to place
    weeks, week_months,
    month_labels, last_month,
    i,                    \* loop index of print_heatmap's loops (0-based)
    weekday_index,
    line,                 \* the line of stdout being written
    out,                  \* the finished lines of stdout
    call                  \* get_commit_color applied on its own: counts and colours

vars == << pc, year, repo, revwalk, commit_counts, error, start_date, end_date,
           adjusted_start_date, adjusted_end_date, date, weeks, week_months,
           month_labels, last_month, i, weekday_index, line, out, call >>

Init ==
    /\ pc = "collect_commit_counts"
    /\ year \in Years
    /\ repo \in Histories(year)
    /\ revwalk = 0
    /\ commit_counts = << >>
    /\ error = << >>
    /\ start_date = 0 /\ end_date = 0
    /\ adjusted_start_date = 0 /\ adjusted_end_date = 0
    /\ date = 0
    /\ weeks = << >> /\ week_months = << >>
    /\ month_labels = << >> /\ last_month = 0
    /\ i = 0 /\ weekday_index = 0
    /\ line = << >> /\ out = << >>
    /\ call = << >>

\* ------------------------------------------------------ stdout tokens
\* print!(s) writes a plain token; PrintStyledContent(s.on(c)) a token
\* with background colour c.
Text(s) == [text |-> s, bg |-> "none"]
Styled(s, c) == [text |-> s, bg |-> c]

\* format!("{:<2}", week_month): the decimal digits, left-aligned and
\* padded with spaces to width 2.
FormatMonth(week_month) ==
    CASE week_month = 0 -> "0 "
      [] week_month = 1 -> "1 "
      [] week_month = 2 -> "2 "
      [] week_month = 3 -> "3 "
      [] week_month = 4 -> "4 "
      [] week_month = 5 -> "5 "
      [] week_month = 6 -> "6 "
      [] week_month = 7 -> "7 "
      [] week_month = 8 -> "8 "
      [] week_month = 9 -> "9 "
      [] week_month = 10 -> "10"
      [] week_month = 11 -> "11"
      [] week_month = 12 -> "12"

\* format!("{:<4}", weekday_label): a three-letter label padded to width 4.
FormatWeekday(weekday_label) ==
    CASE weekday_label = "Sun" -> "Sun "
      [] weekday_label = "Mon" -> "Mon "
      [] weekday_label = "Tue" -> "Tue "
      [] weekday_label = "Wed" -> "Wed "
      [] weekday_label = "Thu" -> "Thu "
      [] weekday_label = "Fri" -> "Fri "
      [] weekday_label = "Sat" -> "Sat "

\* ------------------------------------------------ collect_commit_counts
\* The Err of a failed run: its message and the values the message prints.
Failure(msg) == [msg |-> msg, values |-> {}]

\* a year test that lets later years through
YearMatchesFrom(d, y) == YearOf(d) >= y

\* date.year() == year
YearMatches(d, y) == YearOf(d) = y

\* *commit_counts.entry(date).or_insert(0) += 1
\* (a u32 count; a history of MaxCommits commits stays far below 2^32)
Increment(counts, d) ==
    [k \in DOMAIN counts \cup {d} |->
        IF k = d
        THEN (IF d \in DOMAIN counts THEN counts[d] ELSE 0) + 1
        ELSE counts[k]]

\* One commit of the loop body after Utc.timestamp_opt succeeded.
CountCommit(counts, d, y) ==
    IF YearMatches(d, y) THEN Increment(counts, d) ELSE counts

\* revwalk.push_head()?: a repository without commits has no HEAD commit
\* to push and the call fails.
PushHead ==
    /\ pc = "collect_commit_counts"
    /\ IF repo = << >>
       THEN /\ pc' = "failed"
            /\ error' = << Failure("reference not found") >>
       ELSE /\ pc' = "revwalk"
            /\ error' = error
    /\ revwalk' = 0
    /\ commit_counts' = << >>
    /\ UNCHANGED << call, year, repo, start_date, end_date, adjusted_start_date,
                    adjusted_end_date, date, weeks, week_months, month_labels,
                    last_month, i, weekday_index, line, out >>

\* One iteration of `for oid_result in revwalk`.
WalkCommit ==
    /\ pc = "revwalk"
    /\ revwalk < Len(repo)
    /\ LET timestamp == repo[revwalk + 1]
           datetime  == TimestampDate(timestamp)
       IN  IF datetime = << >>
           THEN /\ pc' = "failed"
                /\ error' = << Failure("Invalid timestamp") >>
                /\ commit_counts' = << >>
           ELSE /\ pc' = pc
                /\ error' = error
                /\ commit_counts' = CountCommit(commit_counts, datetime[1], year)
    /\ revwalk' = revwalk + 1
    /\ UNCHANGED << call, year, repo, start_date, end_date, adjusted_start_date,
                    adjusted_end_date, date, weeks, week_months, month_labels,
                    last_month, i, weekday_index, line, out >>

\* Ok(commit_counts), then main builds the two ends of the year and
\* enters adjust_start_and_end_dates.
CollectReturn ==
    /\ pc = "revwalk"
    /\ revwalk = Len(repo)
    /\ pc' = "adjust_start"
    /\ start_date' = DaysFromCivil(year, 1, 1)
    /\ end_date' = DaysFromCivil(year, 12, 31)
    /\ adjusted_start_date' = start_date'
    /\ UNCHANGED << call, year, repo, revwalk, commit_counts, error,
                    adjusted_end_date, date, weeks, week_months, month_labels,
                    last_month, i, weekday_index, line, out >>

\* ------------------------------------------- adjust_start_and_end_dates
\* a start that is walked back to a Monday
StartNeedsAdjustMonday(d) == Weekday(d) # 1

\* the loop conditions of the two while loops
StartNeedsAdjust(d) == Weekday(d) # Sun
EndNeedsAdjust(d) == Weekday(d) # Sat

AdjustStart ==
    /\ pc = "adjust_start"
    /\ IF StartNeedsAdjust(adjusted_start_date)
       THEN /\ adjusted_start_date' = adjusted_start_date - 1
            /\ UNCHANGED << pc, adjusted_end_date >>
       ELSE /\ pc' = "adjust_end"
            /\ adjusted_end_date' = end_date
            /\ UNCHANGED adjusted_start_date
    /\ UNCHANGED << call, year, repo, revwalk, commit_counts, error, start_date,
                    end_date, date, weeks, week_months, month_labels,
                    last_month, i, weekday_index, line, out >>

AdjustEnd ==
    /\ pc = "adjust_end"
    /\ IF EndNeedsAdjust(adjusted_end_date)
       THEN /\ adjusted_end_date' = adjusted_end_date + 1
            /\ UNCHANGED << pc, date >>
       ELSE /\ pc' = "organize_weeks"
            /\ date' = adjusted_start_date
            /\ UNCHANGED adjusted_end_date
    /\ UNCHANGED << call, year, repo, revwalk, commit_counts, error, start_date,
                    end_date, adjusted_start_date, weeks, week_months,
                    month_labels, last_month, i, weekday_index, line, out >>

\* ------------------------------------------------------- organize_weeks
\* a range test that leaves the first day out
InYearAfterStart(d, s, e) == d > s /\ d <= e

\* date >= *start_date && date <= *end_date
InYear(d, s, e) == d >= s /\ d <= e

\* The inner `for _ in 0..DAYS_IN_WEEK`: n slots still to fill, from day d.
RECURSIVE WeekLoop(_, _, _, _, _, _)
WeekLoop(n, d, week, week_month, s, e) ==
    IF n = 0
    THEN [week |-> week, week_month |-> week_month, date |-> d]
    ELSE IF InYear(d, s, e)
         THEN WeekLoop(n - 1, d + 1, Append(week, << d >>),
                       IF week_month = 0 THEN MonthOf(d) ELSE week_month, s, e)
         ELSE WeekLoop(n - 1, d + 1, Append(week, << >>), week_month, s, e)

\* One iteration of `while date <= *adjusted_end_date`, or the return.
OrganizeWeek ==
    /\ pc = "organize_weeks"
    /\ IF date <= adjusted_end_date
       THEN LET r == WeekLoop(DAYS_IN_WEEK, date, << >>, 0, start_date, end_date)
            IN  /\ weeks' = Append(weeks, r.week)
                /\ week_months' = Append(week_months, r.week_month)
                /\ date' = r.date
                /\ UNCHANGED << pc, month_labels, last_month, i >>
       ELSE /\ pc' = "month_labels"
            /\ month_labels' = [k \in 1 .. Len(weeks) |-> "  "]
            /\ last_month' = 0
            /\ i' = 0
            /\ UNCHANGED << weeks, week_months, date >>
    /\ UNCHANGED << call, year, repo, revwalk, commit_counts, error, start_date,
                    end_date, adjusted_start_date, adjusted_end_date,
                    weekday_index, line, out >>

\* -------------------------------------------------------- print_heatmap
\* a label test that forgets the month labelled last
LabelDueEveryWeek(week_month, last) == week_month # 0

\* week_month != last_month && week_month != 0
LabelDue(week_month, last) == week_month # last /\ week_month # 0

\* One iteration of `for i in 0..weeks.len()` over the month labels.  An
\* index past the end of a Vec panics.
LabelStep ==
    /\ pc = "month_labels"
    /\ IF i < Len(weeks)
       THEN IF i + 1 > Len(week_months) \/ i + 1 > Len(month_labels)
            THEN /\ pc' = "panicked"
                 /\ UNCHANGED << month_labels, last_month, i, line >>
            ELSE LET week_month == week_months[i + 1]
                 IN  /\ IF LabelDue(week_month, last_month)
                        THEN /\ month_labels' =
                                  [month_labels EXCEPT ![i + 1] = FormatMonth(week_month)]
                             /\ last_month' = week_month
                        ELSE UNCHANGED << month_labels, last_month >>
                     /\ i' = i + 1
                     /\ UNCHANGED << pc, line >>
       ELSE /\ pc' = "header"
            /\ line' = << Text("     ") >>
            /\ i' = 0
            /\ UNCHANGED << month_labels, last_month >>
    /\ UNCHANGED << call, year, repo, revwalk, commit_counts, error, start_date,
                    end_date, adjusted_start_date, adjusted_end_date, date,
                    weeks, week_months, weekday_index, out >>

\* a column test that also takes the last column
HasNextWeekInclusive(k, n) == k < n

\* i < weeks.len() - 1
HasNextWeek(k, n) == k < n - 1

\* a month test that looks one column back
MonthChangedBefore(wm, k) == k >= 1 /\ wm[k] # wm[k + 1] /\ wm[k + 1] # 0

\* week_months[i] != week_months[i + 1] && week_months[i + 1] != 0
MonthChanges(wm, k) == wm[k + 1] # wm[k + 2] /\ wm[k + 2] # 0

\* What is printed between week columns k and k+1 (0-based); "panic" when
\* week_months is indexed past its end.
Separator(wm, k) ==
    IF k + 2 > Len(wm)
    THEN "panic"
    ELSE IF MonthChanges(wm, k) THEN MONTH_SEPARATOR ELSE " "

\* The tokens written after column k's label or cell.
Gap(k) ==
    IF HasNextWeek(k, Len(weeks))
    THEN << Text(Separator(week_months, k)) >>
    ELSE << >>

Panics(tokens) == \E k \in 1 .. Len(tokens) : tokens[k].text = "panic"

\* One iteration of `for (i, label) in month_labels.iter().enumerate()`,
\* or the println!() that ends the header.
HeaderStep ==
    /\ pc = "header"
    /\ IF i < Len(month_labels)
       THEN LET written == << Text(month_labels[i + 1]) >> \o Gap(i)
            IN  IF Panics(written)
                THEN /\ pc' = "panicked"
                     /\ UNCHANGED << line, i, out, weekday_index >>
                ELSE /\ line' = line \o written
                     /\ i' = i + 1
                     /\ UNCHANGED << pc, out, weekday_index >>
       ELSE /\ pc' = "rows"
            /\ out' = Append(out, line)
            /\ line' = << >>
            /\ weekday_index' = 0
            /\ UNCHANGED i
    /\ UNCHANGED << call, year, repo, revwalk, commit_counts, error, start_date,
                    end_date, adjusted_start_date, adjusted_end_date, date,
                    weeks, week_months, month_labels, last_month >>

\* a colour table whose last threshold is off by one
get_commit_color_late(count) ==
    CASE count = 0 -> "DarkGrey"
      [] count = 1 -> "Green"
      [] count >= 2 /\ count <= 3 -> "DarkGreen"
      [] count >= 4 /\ count <= 6 -> "Rgb(0,255,0)"
      [] OTHER -> "White"

\* get_commit_color
get_commit_color(count) ==
    CASE count = 0 -> "DarkGrey"
      [] count = 1 -> "Green"
      [] count >= 2 /\ count <= 3 -> "DarkGreen"
      [] count >= 4 /\ count <= 5 -> "Rgb(0,255,0)"
      [] OTHER -> "White"

\* weeks[i].get(weekday_index)
Slot(week, wd) == IF wd + 1 \in DOMAIN week THEN << week[wd + 1] >> ELSE << >>

\* a lookup of the day after
CountOnNextDay(counts, d) == IF d + 1 \in DOMAIN counts THEN counts[d + 1] ELSE 0

\* *commit_counts.get(&date).unwrap_or(&0)
CountOn(counts, d) == IF d \in DOMAIN counts THEN counts[d] ELSE 0

\* The cell painted for week column k (0-based) in weekday row wd.
Cell(k, wd) ==
    LET slot == Slot(weeks[k + 1], wd)
    IN  IF slot # << >> /\ slot[1] # << >>
        THEN Styled(EMPTY_LABEL, get_commit_color(CountOn(commit_counts, slot[1][1])))
        ELSE Styled(EMPTY_LABEL, "DarkGrey")

\* `for i in 0..weeks.len()` of one weekday row, from column k on.
RECURSIVE RowCells(_, _)
RowCells(wd, k) ==
    IF k >= Len(weeks)
    THEN << >>
    ELSE << Cell(k, wd) >> \o Gap(k) \o RowCells(wd, k + 1)

\* One iteration of `for (weekday_index, weekday_label) in WEEKDAYS`: the
\* row and the empty line after it; or the return of print_heatmap and main.
RowStep ==
    /\ pc = "rows"
    /\ IF weekday_index < Len(WEEKDAYS)
       THEN LET written == << Text(FormatWeekday(WEEKDAYS[weekday_index + 1])) >>
                             \o RowCells(weekday_index, 0)
            IN  IF Panics(written)
                THEN /\ pc' = "panicked"
                     /\ UNCHANGED << out, weekday_index >>
                ELSE /\ out' = out \o << written, << >> >>
                     /\ weekday_index' = weekday_index + 1
                     /\ UNCHANGED pc
       ELSE /\ pc' = "done"
            /\ UNCHANGED << out, weekday_index >>
    /\ UNCHANGED << call, year, repo, revwalk, commit_counts, error, start_date,
                    end_date, adjusted_start_date, adjusted_end_date, date,
                    weeks, week_months, month_labels, last_month, i, line >>

Next ==
    \/ PushHead
    \/ WalkCommit
    \/ CollectReturn
    \/ AdjustStart
    \/ AdjustEnd
    \/ OrganizeWeek
    \/ LabelStep
    \/ HeaderStep
    \/ RowStep

Spec == Init /\ [][Next]_vars

\* ------------------------------------- get_commit_color on its own
\* get_commit_color applied to two counts drawn from 0 .. MaxCount.
InitClassify ==
    /\ pc = "get_commit_color"
    /\ call \in { [count |-> << a, b >>, color |-> << >>] : a, b \in 0 .. MaxCount }
    /\ year = 2000
    /\ repo = << >>
    /\ revwalk = 0
    /\ commit_counts = << >>
    /\ error = << >>
    /\ start_date = 0 /\ end_date = 0
    /\ adjusted_start_date = 0 /\ adjusted_end_date = 0
    /\ date = 0
    /\ weeks = << >> /\ week_months = << >>
    /\ month_labels = << >> /\ last_month = 0
    /\ i = 0 /\ weekday_index = 0
    /\ line = << >> /\ out = << >>

Classify ==
    /\ pc = "get_commit_color"
    /\ pc' = "classified"
    /\ call' = [call EXCEPT !.color = << get_commit_color(call.count[1]),
                                         get_commit_color(call.count[2]) >>]
    /\ UNCHANGED << year, repo, revwalk, commit_counts, error, start_date,
                    end_date, adjusted_start_date, adjusted_end_date, date,
                    weeks, week_months, month_labels, last_month, i,
                    weekday_index, line, out >>

NextClassify == Classify

SpecClassify == InitClassify /\ [][NextClassify]_vars

\* ================================================================ claims
\* organize_weeks has just returned to main
GridReturned == pc = "month_labels" /\ i = 0

\* the calendar day slot j (0-based) of week row r (1-based) stands for
SlotDay(r, j) == adjusted_start_date + DAYS_IN_WEEK * (r - 1) + j

\* the days of the target year, from the calendar alone
DaysOfYear == { d \in DaysFromCivil(year, 1, 1) - 1 .. DaysFromCivil(year, 1, 1) + 366 :
                  YearOf(d) = year }

\* the slots (row, index) that hold a date
Filled == { rj \in (1 .. Len(weeks)) \X (0 .. 6) : weeks[rj[1]][rj[2] + 1] # << >> }

\* C1: the grid of adjust_start_and_end_dates followed by organize_weeks is
\* week-aligned and covers the year exactly: every row has 7 slots, the
\* first slot of the first row is a Sunday and the last slot of the last
\* row a Saturday, slot j of a row stands for a day of weekday j, every day
\* of the year is in exactly one slot (its own: the year's days fill as
\* many slots as the year has days), and every other slot is None.
C1_GridCoversYear ==
    GridReturned =>
        LET n == Len(weeks)
            days == DaysOfYear
        IN  /\ n >= 1
            /\ \A r \in 1 .. n : Len(weeks[r]) = 7
            /\ Weekday(SlotDay(1, 0)) = 0
            /\ Weekday(SlotDay(n, 6)) = 6
            /\ SlotDay(n, 6) = adjusted_end_date
            /\ \A r \in 1 .. n : \A j \in 0 .. 6 :
                  /\ Weekday(SlotDay(r, j)) = j
                  /\ weeks[r][j + 1] # << >> =>
                        /\ weeks[r][j + 1] = << SlotDay(r, j) >>
                        /\ YearOf(SlotDay(r, j)) = year
            /\ \A d \in days :
                  LET k == d - adjusted_start_date
                  IN  /\ k >= 0 /\ k < 7 * n
                      /\ weeks[(k \div 7) + 1][(k % 7) + 1] = << d >>
            /\ Cardinality(Filled) = Cardinality(days)
            /\ Cardinality(days) \in {365, 366}

\* C1 witness: the grid of leap year 2000, which starts on a Saturday and
\* ends on a Sunday, so both edge rows hold a single day of the year
C1_Witness ==
    /\ GridReturned
    /\ year = 2000
    /\ Len(weeks) = 54
    /\ weeks[1][7] = << DaysFromCivil(2000, 1, 1) >>
    /\ weeks[54][1] = << DaysFromCivil(2000, 12, 31) >>

\* the None slots of a week row, as 0-based indexes
Blanks(r) == { j \in 0 .. 6 : weeks[r][j + 1] = << >> }

\* C9: None slots are only the first weekday(Jan 1) slots of the first row
\* and the last 6 - weekday(Dec 31) slots of the last row; every row holds
\* a day of the year and its week month is never 0.  The first row of 2021
\* is five None, Jan 1, Jan 2 with month 1; the last row of 2024 is
\* Dec 29 .. Dec 31 and four None.
C9_BlanksOnlyAtEdges ==
    GridReturned =>
        LET n == Len(weeks)
            jan1 == DaysFromCivil(year, 1, 1)
            dec31 == DaysFromCivil(year, 12, 31)
        IN  /\ n >= 2
            /\ Blanks(1) = { j \in 0 .. 6 : j < Weekday(jan1) }
            /\ Blanks(n) = { j \in 0 .. 6 : j > Weekday(dec31) }
            /\ \A r \in 2 .. n - 1 : Blanks(r) = {}
            /\ \A r \in 1 .. n : Blanks(r) # 0 .. 6 /\ week_months[r] # 0
            /\ Len(week_months) = n
            /\ year = 2021 =>
                  /\ weeks[1] = << << >>, << >>, << >>, << >>, << >>,
                                   << DaysFromCivil(2021, 1, 1) >>,
                                   << DaysFromCivil(2021, 1, 2) >> >>
                  /\ week_months[1] = 1
            /\ year = 2024 =>
                  weeks[n] = << << DaysFromCivil(2024, 12, 29) >>,
                                << DaysFromCivil(2024, 12, 30) >>,
                                << DaysFromCivil(2024, 12, 31) >>,
                                << >>, << >>, << >>, << >> >>

\* C9 witness: the grid of 2023, whose Jan 1 is a Sunday: no None slot in
\* the first row, six in the last
C9_Witness ==
    /\ GridReturned
    /\ year = 2023
    /\ Blanks(1) = {}
    /\ Blanks(Len(weeks)) = 1 .. 6

\* --------------------------------------------------------------------
\* the buckets, by the colour that stands for each, in increasing order
Buckets == << "DarkGrey", "Green", "DarkGreen", "Rgb(0,255,0)", "White" >>
Rank(color) == CHOOSE k \in 1 .. 5 : Buckets[k] = color

\* C2: get_commit_color is total on the counts, non-decreasing in the
\* count, maps 0 to Zero, 1 to Low, 2..3 to Medium, 4..5 to High and 6 or
\* more to VeryHigh, and the five buckets are pairwise distinct.
C2_Classify ==
    pc = "classified" =>
        /\ \A k \in 1 .. 2 :
              LET c == call.count[k]
              IN  /\ \E b \in 1 .. 5 : call.color[k] = Buckets[b]
                  /\ Rank(call.color[k]) =
                        IF c = 0 THEN 1
                        ELSE IF c = 1 THEN 2
                        ELSE IF c <= 3 THEN 3
                        ELSE IF c <= 5 THEN 4
                        ELSE 5
        /\ call.count[1] <= call.count[2] =>
              Rank(call.color[1]) <= Rank(call.color[2])
        /\ \A a, b \in 1 .. 5 : a # b => Buckets[a] # Buckets[b]

\* C2 witness: the two sides of the High / VeryHigh threshold
C2_Witness ==
    /\ pc = "classified"
    /\ call.count = << 5, 6 >>
    /\ call.color = << "Rgb(0,255,0)", "White" >>

\* --------------------------------------------------------------------
\* collect_commit_counts has returned Ok
Collected == pc \notin {"collect_commit_counts", "revwalk", "failed"}

\* ... and main has done nothing more than build the two ends of the year
JustCollected == pc = "adjust_start" /\ adjusted_start_date = start_date

\* the calendar day of commit k of the history
DateOf(k) == TimestampDate(repo[k])[1]

RECURSIVE SumCounts(_, _)
SumCounts(counts, keys) ==
    IF keys = {}
    THEN 0
    ELSE LET d == CHOOSE x \in keys : TRUE
         IN  counts[d] + SumCounts(counts, keys \ {d})

\* the loop of collect_commit_counts over a history of valid commit times
RECURSIVE CollectAll(_, _, _)
CollectAll(history, k, counts) ==
    IF k > Len(history)
    THEN counts
    ELSE CollectAll(history, k + 1,
                    CountCommit(counts, TimestampDate(history[k])[1], year))

Orderings(n) == { p \in [1 .. n -> 1 .. n] : \A a, b \in 1 .. n : a # b => p[a] # p[b] }

\* C5: once collect_commit_counts has walked the whole history, the map
\* holds for each day of the year the number of commits on that day (days
\* without a commit are absent), no key outside the year, so its counts
\* sum to the number of commits of the year; every ordering of the history
\* gives the same map.
C5_CountsPerDay ==
    JustCollected =>
        LET n == Len(repo)
            inYear == { k \in 1 .. n : YearOf(DateOf(k)) = year }
        IN  /\ \A d \in DOMAIN commit_counts :
                  /\ YearOf(d) = year
                  /\ commit_counts[d] = Cardinality({ k \in 1 .. n : DateOf(k) = d })
                  /\ commit_counts[d] >= 1
            /\ \A k \in inYear : DateOf(k) \in DOMAIN commit_counts
            /\ SumCounts(commit_counts, DOMAIN commit_counts) = Cardinality(inYear)
            /\ \A p \in Orderings(n) :
                  CollectAll([k \in 1 .. n |-> repo[p[k]]], 1, << >>) = commit_counts

\* C5 witness: two commits at different seconds of Jan 1 counted as 2,
\* after a history that also holds a commit of another year
C5_Witness ==
    /\ JustCollected
    /\ Len(repo) >= 2
    /\ repo[1] # repo[2]
    /\ DOMAIN commit_counts = { DaysFromCivil(year, 1, 1) }
    /\ commit_counts[DaysFromCivil(year, 1, 1)] = 2

\* C7: a commit time that is no valid date makes collect_commit_counts
\* fail at once with an error that names the offending value: the commit
\* is never skipped, no count map is returned, and main ends before
\* anything of the heatmap is printed.
C7_FailsNamingValue ==
    /\ Collected => \A k \in 1 .. Len(repo) : TimestampDate(repo[k]) # << >>
    /\ (pc = "failed" /\ revwalk >= 1) =>
          /\ TimestampDate(repo[revwalk]) = << >>
          /\ error # << >>
          /\ repo[revwalk] \in error[1].values
          /\ commit_counts = << >>
          /\ out = << >> /\ line = << >>

\* --------------------------------------------------------------------
\* print_heatmap has filled month_labels and is about to print
Labelled == pc = "header" /\ i = 0

\* the month of the first day of the year in week row r (1-based), 0 if none
FirstInYearMonth(r) ==
    LET js == { j \in 1 .. 7 : weeks[r][j] # << >> }
    IN  IF js = {}
        THEN 0
        ELSE MonthOf(weeks[r][CHOOSE j \in js : \A q \in js : j <= q][1])

\* C3: whatever the commit counts, the label scan gives each month its
\* label exactly once, at the first week row whose first day of the year
\* is in that month; the first label is month 1, on week row 0.
C3_MonthLabelledOnce ==
    Labelled =>
        LET n == Len(weeks)
            fm == [r \in 1 .. n |-> FirstInYearMonth(r)]
        IN  /\ Len(month_labels) = n
            /\ \A m \in 1 .. 12 :
                  LET at == { r \in 1 .. n : month_labels[r] = FormatMonth(m) }
                  IN  /\ Cardinality(at) = 1
                      /\ \A r \in at : fm[r] = m /\ \A q \in 1 .. r - 1 : fm[q] # m
            /\ \A r \in 1 .. n :
                  \/ month_labels[r] = "  "
                  \/ \E m \in 1 .. 12 : month_labels[r] = FormatMonth(m)
            /\ month_labels[1] = FormatMonth(1)

\* C3 witness: the labels of a year in which no day has a commit
C3_Witness ==
    /\ Labelled
    /\ repo # << >>
    /\ commit_counts = << >>
    /\ month_labels[1] = "1 "
    /\ \E r \in 2 .. Len(weeks) : month_labels[r] = "12"

\* --------------------------------------------------------------------
\* stdout when main has returned: line 1 is the header, line 2 + 2 * wd the
\* row of weekday wd; in each, token 2 + 2 * k is the label or the cell of
\* week column k (0-based) and token 3 + 2 * k what follows it.
Header == out[1]
Row(wd) == out[2 + 2 * wd]
ColumnAt(k) == 2 + 2 * k
GapAt(k) == 3 + 2 * k

\* C4: one separator decision per pair of neighbouring week rows (n labels
\* and n - 1 decisions in the header and in each weekday row), "|" exactly
\* when the week months differ and the second is not 0, no index out of
\* bounds, and the same decision in the header and the seven rows.
C4_SeparatorPerAdjacency ==
    /\ pc # "panicked"
    /\ pc = "done" =>
          LET n == Len(weeks)
          IN  /\ Len(week_months) = n
              /\ Len(out) = 15
              /\ Len(Header) = 2 * n
              /\ \A k \in 0 .. n - 1 : Header[ColumnAt(k)] = Text(month_labels[k + 1])
              /\ \A k \in 0 .. n - 2 :
                    /\ Header[GapAt(k)] =
                          Text(IF week_months[k + 1] # week_months[k + 2]
                                  /\ week_months[k + 2] # 0
                               THEN "|" ELSE " ")
                    /\ \A wd \in 0 .. 6 : Row(wd)[GapAt(k)] = Header[GapAt(k)]
              /\ \A wd \in 0 .. 6 :
                    /\ Len(Row(wd)) = 2 * n
                    /\ \A k \in 0 .. n - 1 : Row(wd)[ColumnAt(k)].bg # "none"

\* C4 witness: the printed heatmap of 2000, 54 week columns, with the
\* separator before February after week column 5 and none after column 0
C4_Witness ==
    /\ pc = "done"
    /\ Len(weeks) = 54
    /\ Header[GapAt(5)].text = "|"
    /\ Row(6)[GapAt(5)].text = "|"
    /\ Header[GapAt(0)].text = " "

\* C10: a separator is drawn between week rows k and k+1 exactly when row
\* k+1 carries a month label: the week months run from 1 to 12 without
\* going back, so the header shows 11 separators and 12 labels.
C10_SeparatorMeetsLabel ==
    pc = "done" =>
        LET n == Len(weeks)
        IN  /\ \A k \in 0 .. n - 2 :
                  (Header[GapAt(k)].text = "|") <=> (Header[ColumnAt(k + 1)].text # "  ")
            /\ Cardinality({ k \in 0 .. n - 2 : Header[GapAt(k)].text = "|" }) = 11
            /\ Cardinality({ k \in 0 .. n - 1 : Header[ColumnAt(k)].text # "  " }) = 12
            /\ week_months[1] = 1 /\ week_months[n] = 12
            /\ \A k \in 1 .. n - 1 :
                  week_months[k + 1] \in { week_months[k], week_months[k] + 1 }

\* C10 witness: the header of 2023, where February starts in the week of
\* Jan 29: the separator and the label "2 " sit around week column 5
C10_Witness ==
    /\ pc = "done"
    /\ year = 2023
    /\ Header[GapAt(4)].text = "|"
    /\ Header[ColumnAt(5)].text = "2 "
    /\ Header[GapAt(5)].text = " "

\* C8: in week column k and weekday row wd a None slot is painted as no
\* date, and a slot holding day d with the colour of the count of d, 0
\* when d is not in the map: the count of no other day matters.
C8_CellOwnCount ==
    pc = "done" =>
        \A wd \in 0 .. 6 : \A k \in 0 .. Len(weeks) - 1 :
            LET slot == weeks[k + 1][wd + 1]
                cell == Row(wd)[ColumnAt(k)]
            IN  /\ cell.text = "  "
                /\ IF slot = << >>
                   THEN cell.bg = "DarkGrey"
                   ELSE cell.bg = get_commit_color(
                            IF slot[1] \in DOMAIN commit_counts
                            THEN commit_counts[slot[1]] ELSE 0)

\* C8 witness: Jan 1 with two commits painted DarkGreen beside days
\* without commits, in a year whose Jan 1 is not a Sunday
C8_Witness ==
    /\ pc = "done"
    /\ Weekday(start_date) = 5
    /\ Row(5)[ColumnAt(0)].bg = "DarkGreen"
    /\ Row(6)[ColumnAt(0)].bg = "DarkGrey"
    /\ Row(4)[ColumnAt(0)].bg = "DarkGrey"

\* C6: a None slot (a day outside the year) is painted in a colour of its
\* own, not the colour of a day of the year with 0 commits.
C6_BlankNotZero ==
    pc = "done" =>
        \A wd \in 0 .. 6 : \A k \in 0 .. Len(weeks) - 1 :
            weeks[k + 1][wd + 1] = << >> =>
                \A wd2 \in 0 .. 6 : \A k2 \in 0 .. Len(weeks) - 1 :
                    (/\ weeks[k2 + 1][wd2 + 1] # << >>
                     /\ CountOn(commit_counts, weeks[k2 + 1][wd2 + 1][1]) = 0)
                    => Row(wd)[ColumnAt(k)].bg # Row(wd2)[ColumnAt(k2)].bg
====
